---------------------------- MODULE Spec2Model ----------------------------
(***************************************************************************)
(* Model of horde_model_reference/legacy/convert_legacy.py: the legacy     *)
(* stable-diffusion model-reference converter                              *)
(* (LegacyConverterBase / LegacyStableDiffusionConverter).                 *)
(*                                                                         *)
(* Data conventions                                                        *)
(*   - A Python str is a sequence of tokens (characters or short chunks);  *)
(*     `x in s` for a chunk x is membership of x among the tokens of s.    *)
(*   - Optional[T]: None is <<>>, a present value v is <<v>>.              *)
(*   - A Python dict is a sequence of <<key, value>> pairs in insertion    *)
(*     order; assigning an existing key keeps its position.                *)
(*   - A finding is logged as the fixed part of its message; the record    *)
(*     key the message starts with is the dict key it is logged under.     *)
(*   - The showcase directory globbed by showcase_glob_pattern and the     *)
(*     directory create_showcase_folder writes to are the same directory   *)
(*     (as when the module is run from the repository root, line 489-496). *)
(***************************************************************************)
EXTENDS Integers, Sequences, FiniteSets, TLC

\* ------------------------------------------------------------------ bounds
\* Largest number of records in a legacy file.
MaxRecords == 2
\* Largest number of orchestrator runs performed in one process.
MaxRuns == 3

\* ------------------------------------------------------------- primitives
None == <<>>
Some(v) == <<v>>
IsNone(o) == o = <<>>
Val(o) == o[1]

Range(s) == {s[i] : i \in 1..Len(s)}
\* Python `chunk in s`
Contains(chunk, s) == chunk \in Range(s)

\* dict operations
DictKeys(d) == [i \in 1..Len(d) |-> d[i][1]]
DictHas(d, k) == \E i \in 1..Len(d) : d[i][1] = k
DictGet(d, k) == d[CHOOSE i \in 1..Len(d) : d[i][1] = k][2]
DictSet(d, k, v) ==
    IF DictHas(d, k)
    THEN [i \in 1..Len(d) |-> IF d[i][1] = k THEN <<k, v>> ELSE d[i]]
    ELSE Append(d, <<k, v>>)
\* d.get(k, 0) + 1 stored back under k
DictIncr(d, k) == DictSet(d, k, (IF DictHas(d, k) THEN DictGet(d, k) ELSE 0) + 1)

\* --------------------------------------------------- external pure helpers
\* util.model_name_to_showcase_folder_name: lower-case, drop apostrophes,
\* every other non-alphanumeric character becomes an underscore.
FolderChar(c) ==
    CASE c = "A" -> <<"a">>
      [] c = "B" -> <<"b">>
      [] c \in {"a", "b", "x", "z", "1"} -> <<c>>
      [] c = "'" -> <<>>
      [] OTHER -> <<"_">>
RECURSIVE model_name_to_showcase_folder_name(_)
model_name_to_showcase_folder_name(model_name) ==
    IF model_name = <<>> THEN <<>>
    ELSE FolderChar(Head(model_name)) \o model_name_to_showcase_folder_name(Tail(model_name))

\* urllib.parse.quote: unreserved characters and "/" are kept, every other
\* character is replaced by its %XX escape.
QuoteChar(c) ==
    CASE c = " " -> <<"%", "2", "0">>
      [] c = "%" -> <<"%", "2", "5">>
      [] c = "#" -> <<"%", "2", "3">>
      [] OTHER -> <<c>>
RECURSIVE quote(_)
quote(s) == IF s = <<>> THEN <<>> ELSE QuoteChar(Head(s)) \o quote(Tail(s))

\* consts.MODEL_REFERENCE_GITHUB_REPO (a URL ending in "/")
MODEL_REFERENCE_GITHUB_REPO == <<"https://", "raw.githubusercontent.com", "/repo/main/">>
default_showcase_folder_name == <<"showcase">>

\* urllib.parse.urljoin(base, relative) for a base ending in "/" and a
\* relative reference with no scheme, no leading "/" and no dot segments.
urljoin(base, relative) == base \o relative

\* urllib.parse.urlparse(url).netloc: the tokens between the scheme and the
\* first path token.  urlsplit raises ValueError for a netloc holding "["
\* without "]" (or the reverse).
SchemeTokens == {"https://", "http://"}
IsPathToken(t) == t \in {"/x", "/y", "/repo/main/"}
RECURSIVE TakeNetloc(_)
TakeNetloc(s) ==
    IF s = <<>> \/ IsPathToken(Head(s)) THEN <<>> ELSE <<Head(s)>> \o TakeNetloc(Tail(s))
netloc(url) ==
    IF url # <<>> /\ Head(url) \in SchemeTokens THEN TakeNetloc(Tail(url)) ELSE <<>>
urlparse_raises(url) ==
    LET n == netloc(url) IN (Contains("[", n) /\ ~Contains("]", n)) \/ (Contains("]", n) /\ ~Contains("[", n))


\* ------------------------------------------------------------ input space
\* Legacy record keys.  "A" and "a" have the same showcase folder name.
KeyOrder == << <<"A">>, <<"a">>, <<"b", " ">> >>
Keys == Range(KeyOrder)
OtherName == <<"x">>

CkptPath == <<"model", ".ckpt">>
OtherPath == <<"other", ".ckpt">>
YamlPath == <<"v1-inference", ".yaml">>
AbsentPath == <<"absent", ".ckpt">>

CivitaiUrl == <<"https://", "civitai", ".com", "/x">>
HfUrl == <<"https://", "huggingface", ".co", "/y">>
BadUrl == <<"http://", "[", "bad", "/x">>
PlainShowcaseUrl == <<"https://", "example", ".org", "/x">>

\* A checksum is a str of hex digits, one token per character: n times c.
Sha(c, n) == [i \in 1..n |-> c]
ShaModel == Sha("a", 64)
ShaOther == Sha("b", 64)
ShaYaml == Sha("c", 64)
ShaStale == Sha("0", 64)
ShaShort == Sha("d", 63)
ShaLong == Sha("e", 65)

\* Raw file descriptors of a legacy config block.  schema_ok says whether
\* the raw object satisfies the Legacy_Config_FileRecord schema.
RawFile(path, sha) == [path |-> path, sha256sum |-> sha, schema_ok |-> TRUE]
F_ckpt == RawFile(CkptPath, Some(ShaModel))
F_other == RawFile(OtherPath, Some(ShaOther))
F_yaml == RawFile(YamlPath, Some(ShaYaml))
F_bad == [RawFile(CkptPath, Some(ShaModel)) EXCEPT !.schema_ok = FALSE]
F_short == RawFile(CkptPath, Some(ShaShort))
F_long == RawFile(OtherPath, Some(ShaLong))
F_nosha == RawFile(CkptPath, None)

\* Raw download descriptors; the legacy file may carry a stale checksum.
RawDownload(file_name, url) ==
    [file_name |-> file_name, file_path |-> <<>>, file_url |-> url,
     sha256sum |-> Some(ShaStale), schema_ok |-> TRUE]
D_model == RawDownload(CkptPath, Some(CivitaiUrl))
D_other == RawDownload(OtherPath, Some(HfUrl))
D_yaml == RawDownload(YamlPath, Some(HfUrl))
D_missing == RawDownload(AbsentPath, Some(HfUrl))
D_badurl == RawDownload(CkptPath, Some(BadUrl))
D_nourl == RawDownload(CkptPath, None)
D_bad == [RawDownload(CkptPath, Some(HfUrl)) EXCEPT !.schema_ok = FALSE]

FilesFirst(fl, dl) == << <<"files", fl>>, <<"download", dl>> >>
DownloadFirst(fl, dl) == << <<"download", dl>>, <<"files", fl>> >>
GoodConfig == FilesFirst(<<F_ckpt>>, <<D_model>>)

ConfigShapes ==
    { GoodConfig,
      DownloadFirst(<<F_ckpt>>, <<D_model>>),
      FilesFirst(<<F_yaml, F_ckpt, F_other>>, <<D_model, D_other>>),
      DownloadFirst(<<F_yaml, F_ckpt, F_other>>, <<D_other, D_model>>),
      FilesFirst(<<F_ckpt>>, <<D_missing>>),
      FilesFirst(<<F_yaml, F_ckpt>>, <<D_yaml>>),
      FilesFirst(<<F_bad>>, <<D_model>>),
      FilesFirst(<<F_ckpt>>, <<D_bad>>),
      FilesFirst(<<F_ckpt>>, <<D_model, D_bad>>),
      DownloadFirst(<<F_bad>>, <<D_model>>),
      FilesFirst(<<F_ckpt>>, <<D_badurl>>),
      FilesFirst(<<F_ckpt>>, <<D_nourl>>),
      FilesFirst(<<F_ckpt>>, <<D_model>>) \o << <<"extra", <<>> >> >>,
      << <<"files", <<F_ckpt>> >> >>,
      << <<"download", <<>> >> >>,
      << >> }

\* A raw legacy record.  has_config: the "config" key is present; config:
\* its value, None for a JSON null.  schema_ok: the raw fields outside the config
\* block satisfy the Legacy_StableDiffusion_ModelRecord schema; strict_ok:
\* the normalized record satisfies the strict target schema.
DefaultRec(key) ==
    [name |-> key, type |-> "ckpt", baseline |-> "stable diffusion 1",
     style |-> "generalist", description |-> Some("text"),
     available |-> FALSE, download_all |-> FALSE,
     showcases |-> None, tags |-> None,
     has_config |-> TRUE, config |-> Some(GoodConfig),
     schema_ok |-> TRUE, strict_ok |-> TRUE]

ConfigRecs(key) ==
    { [DefaultRec(key) EXCEPT !.config = Some(c)] : c \in ConfigShapes }
    \cup { [DefaultRec(key) EXCEPT !.schema_ok = FALSE] }

\* records without a usable config block: key absent, null, empty
NoConfigRecs(key) ==
    { DefaultRec(key),
      [DefaultRec(key) EXCEPT !.has_config = FALSE, !.config = None],
      [DefaultRec(key) EXCEPT !.config = None],
      [DefaultRec(key) EXCEPT !.config = Some(<<>>)] }

\* records whose file descriptors carry checksums of various lengths
ChecksumRecs(key) ==
    { [DefaultRec(key) EXCEPT !.config = Some(c)] :
        c \in { GoodConfig,
                FilesFirst(<<F_short>>, <<D_model>>),
                FilesFirst(<<F_yaml, F_ckpt, F_long>>, <<D_model, D_other>>),
                FilesFirst(<<F_nosha>>, <<D_model>>) } }

SanityRecs(key) ==
    { [DefaultRec(key) EXCEPT !.name = n, !.available = a, !.download_all = da,
                              !.description = d, !.style = s] :
        n \in {key, OtherName}, a \in BOOLEAN, da \in BOOLEAN,
        d \in {None, Some("text")}, s \in {"", "generalist"} }

Baselines ==
    { "stable diffusion 1", "stable diffusion 2", "stable diffusion 2 512",
      "stable_diffusion_1", "stable_diffusion_2_768", "stable_diffusion_2_512",
      "stable diffusion 3", "" }
BaselineRecs(key) ==
    { [DefaultRec(key) EXCEPT !.baseline = b] : b \in Baselines }
    \cup { [DefaultRec(key) EXCEPT !.type = "lora"],
           [DefaultRec(key) EXCEPT !.tags = Some(<<"anime", "nsfw", "anime">>)],
           [DefaultRec(key) EXCEPT !.strict_ok = FALSE] }

ShowcaseRecs(key) ==
    { [DefaultRec(key) EXCEPT !.showcases = s] :
        s \in { None, Some(<<>>), Some(<<PlainShowcaseUrl>>),
                Some(<<HfUrl, PlainShowcaseUrl>>) } }

\* The showcase directory: glob results in listing order.  Each entry is a
\* directory (with its files in listing order) or a plain file.
DiskDir(name, files) == [name |-> name, is_dir |-> TRUE, files |-> files]
DiskFile(name) == [name |-> name, is_dir |-> FALSE, files |-> <<>>]
File1 == <<"a", " ", "1">>
File2 == <<"1", "%">>
DiskStates ==
    { << >>,
      << DiskDir(<<"a">>, <<File1, File2>>) >>,
      << DiskDir(<<"A">>, <<File1>>), DiskDir(<<"a">>, <<File2>>) >>,
      << DiskDir(<<"a">>, <<>>), DiskDir(<<"z">>, <<File1>>) >>,
      << DiskDir(<<"b", "_">>, <<File2>>), DiskDir(<<"z">>, <<>>) >>,
      << DiskFile(<<"b", "_">>), DiskDir(<<"a">>, <<File1>>) >> }

\* Legacy files: a JSON object, i.e. records under distinct keys, in order.
Entry(key, rec) == [key |-> key, rec |-> rec]
RECURSIVE FilesOver(_, _)
\* every file whose i-th record has key keys[i] and a shape in Shapes(keys[i])
FilesOver(Shapes(_), keys) ==
    IF keys = <<>> THEN { <<>> }
    ELSE { <<Entry(Head(keys), r)>> \o rest :
             r \in Shapes(Head(keys)), rest \in FilesOver(Shapes, Tail(keys)) }
Lengths == 1..MaxRecords
KeyPrefix(n) == SubSeq(KeyOrder, 1, n)
DefaultPadding(n) == [i \in 1..n |-> Entry(KeyOrder[i + 1], DefaultRec(KeyOrder[i + 1]))]
InjectiveKeySeqs ==
    UNION { { s \in [1..n -> Keys] : \A i, j \in 1..n : i # j => s[i] # s[j] } : n \in Lengths }

ConfigFiles == UNION { FilesOver(ConfigRecs, KeyPrefix(n)) : n \in Lengths }
BaselineFiles == UNION { FilesOver(BaselineRecs, KeyPrefix(n)) : n \in Lengths }
SanityFiles ==
    { <<Entry(KeyOrder[1], r)>> \o DefaultPadding(n - 1) :
        r \in SanityRecs(KeyOrder[1]), n \in Lengths }
ShowcaseFiles == UNION { FilesOver(ShowcaseRecs, ks) : ks \in InjectiveKeySeqs }
NoConfigFiles == UNION { FilesOver(NoConfigRecs, KeyPrefix(n)) : n \in Lengths }
ChecksumFiles == UNION { FilesOver(ChecksumRecs, KeyPrefix(n)) : n \in Lengths }


\* ------------------------------------------------------------------ state
VARIABLES
    legacy,                     \* the legacy database file: sequence of [key, rec]
    disk,                       \* the showcase directory on disk
    outfile,                    \* Optional content of converted_database_file_path
    debug_mode,                 \* self.debug_mode
    all_model_records,          \* LegacyConverterBase.all_model_records (class attribute)
    all_validation_errors_log,  \* LegacyConverterBase.all_validation_errors_log (class attribute)
    pc,                         \* position of normalize_and_convert
    error,                      \* the exception that ended the run, "" if none
    idx,                        \* position of _iterate_over_input_records in the file
    all_baseline_types, all_styles, all_tags, all_model_hosts,   \* locals, lines 191-198
    existing_showcase_files,    \* pre-pass listing, line 201
    jsonToWrite,                \* Optional serialized model reference, line 340
    run,                        \* number of the current run in this process
    writes,                     \* writes to the output path during the current run
    start,                      \* what the current run started from
    phases,                     \* the phases the current run has completed, in order
    config_prints,              \* what normalize_and_convert_config_entries printed in
                                \* the current run, per record key
    history                     \* summaries of the runs finished earlier in this process

vars == <<legacy, disk, outfile, debug_mode, all_model_records,
          all_validation_errors_log, pc, error, idx, all_baseline_types,
          all_styles, all_tags, all_model_hosts, existing_showcase_files,
          jsonToWrite, run, writes, start, phases, config_prints, history>>

\* --------------------------------------------------- LegacyConverterBase
\* add_validation_error_to_log (printing is not modelled)
add_validation_error_to_log(log, model_record_key, err) ==
    DictSet(log, model_record_key,
            Append(IF DictHas(log, model_record_key) THEN DictGet(log, model_record_key) ELSE <<>>,
                   err))
LogIf(cond, log, model_record_key, err) ==
    IF cond THEN add_validation_error_to_log(log, model_record_key, err) ELSE log

\* Legacy_Config_FileRecord(**config_file) / Legacy_Config_DownloadRecord(**download):
\* pydantic raises ValidationError unless the raw object satisfies the schema.
FileRecordRaises(config_file) == ~config_file.schema_ok
DownloadRecordRaises(download) == ~download.schema_ok
ModelRecordRaises(rec) == ~rec.schema_ok
Legacy_Config_DownloadRecord(download) ==
    [file_name |-> download.file_name, file_path |-> download.file_path,
     file_url |-> download.file_url, sha256sum |-> download.sha256sum,
     known_slow_download |-> None]

\* _iterate_over_input_records, lines 101-107: the "files" entry
RECURSIVE ParseFiles(_, _)
ParseFiles(files, acc) ==
    IF files = <<>> \/ acc.status # "ok" THEN acc
    ELSE LET config_file == Head(files) IN
         IF FileRecordRaises(config_file)
         THEN [acc EXCEPT !.status = "ValidationError"]
         ELSE IF Contains(".yaml", config_file.path)
         THEN ParseFiles(Tail(files), acc)
         ELSE ParseFiles(Tail(files),
                [acc EXCEPT !.sha_lookup = DictSet(@, config_file.path, config_file.sha256sum)])

\* line 111: the checksum of a download record; a missing key raises KeyError
ShaLookupHas(sha_lookup, file_name) == DictHas(sha_lookup, file_name)
ShaLookupGet(sha_lookup, file_name) == DictGet(sha_lookup, file_name)

\* lines 109-112: the "download" entry
RECURSIVE ParseDownloads(_, _)
ParseDownloads(downloads, acc) ==
    IF downloads = <<>> \/ acc.status # "ok" THEN acc
    ELSE LET download == Head(downloads) IN
         IF DownloadRecordRaises(download)
         THEN [acc EXCEPT !.status = "ValidationError"]
         ELSE IF ~ShaLookupHas(acc.sha_lookup, download.file_name)
         THEN [acc EXCEPT !.status = "KeyError"]
         ELSE ParseDownloads(Tail(downloads),
                [acc EXCEPT !.downloads =
                    Append(@, [Legacy_Config_DownloadRecord(download) EXCEPT
                                 !.sha256sum = ShaLookupGet(acc.sha_lookup, download.file_name)])])

\* lines 98-112: the entries of the config block, in the order of the file
RECURSIVE ParseEntries(_, _)
ParseEntries(entries, acc) ==
    IF entries = <<>> \/ acc.status # "ok" THEN acc
    ELSE LET config_entry == Head(entries)[1]
             items == Head(entries)[2]
         IN  ParseEntries(Tail(entries),
                IF config_entry = "files" THEN ParseFiles(items, acc)
                ELSE IF config_entry = "download" THEN ParseDownloads(items, acc)
                ELSE acc)

\* lines 114-118: the typed record built from the mutated raw record
TypedRecord(rec, downloads) ==
    [name |-> rec.name, type |-> rec.type, baseline |-> rec.baseline,
     style |-> rec.style, description |-> rec.description,
     available |-> rec.available, download_all |-> rec.download_all,
     showcases |-> rec.showcases, tags |-> rec.tags,
     config |-> Some(<< <<"download", downloads>> >>),
     strict_ok |-> rec.strict_ok]

\* lines 92-124 for one record: [status, too_many, record]
ParseRecord(rec) ==
    IF ~rec.has_config THEN [status |-> "KeyError", too_many |-> FALSE, record |-> None]
    ELSE IF IsNone(rec.config) THEN [status |-> "TypeError", too_many |-> FALSE, record |-> None]
    ELSE LET config == Val(rec.config)
             acc == ParseEntries(config, [status |-> "ok", sha_lookup |-> <<>>, downloads |-> <<>>])
             status == IF acc.status = "ok" /\ ModelRecordRaises(rec)
                       THEN "ValidationError" ELSE acc.status
         IN  [status |-> status, too_many |-> Len(config) > 2,
              record |-> IF status = "ok" THEN Some(TypedRecord(rec, acc.downloads)) ELSE None]

\* (variant: the exception is not caught)
OnValidationError_Uncaught(log, model_record_key) ==
    [log |-> log, pc |-> "aborted", error |-> "ValidationError"]
\* lines 121-124: what a ValidationError of a record leads to
OnValidationError(log, model_record_key) ==
    [log |-> add_validation_error_to_log(log, model_record_key, "CRITICAL: Error parsing"),
     pc |-> "streaming", error |-> ""]

\* (variant: the checks chained with elif, the first hit hiding the rest)
generic_record_sanity_checks_Chained(log, model_record_key, record, debug) ==
    IF record.name # model_record_key
    THEN add_validation_error_to_log(log, model_record_key, "name mismatch")
    ELSE IF record.available
    THEN add_validation_error_to_log(log, model_record_key, "is flagged 'available'.")
    ELSE IF record.download_all /\ debug
    THEN add_validation_error_to_log(log, model_record_key, "has download_all set.")
    ELSE IF IsNone(record.config)
    THEN add_validation_error_to_log(log, model_record_key, "has no config.")
    ELSE IF IsNone(record.description)
    THEN add_validation_error_to_log(log, model_record_key, "has no description.")
    ELSE LogIf(record.style = "", log, model_record_key, "has no style.")
\* lines 126-159
generic_record_sanity_checks(log, model_record_key, record, debug) ==
    LET l1 == LogIf(record.name # model_record_key, log, model_record_key, "name mismatch")
        l2 == LogIf(record.available, l1, model_record_key, "is flagged 'available'.")
        l3 == LogIf(record.download_all /\ debug, l2, model_record_key, "has download_all set.")
        l4 == LogIf(IsNone(record.config), l3, model_record_key, "has no config.")
        l5 == LogIf(IsNone(record.description), l4, model_record_key, "has no description.")
        l6 == LogIf(record.style = "", l5, model_record_key, "has no style.")
    IN  l6


\* ---------------------------------------- LegacyStableDiffusionConverter
\* (variant: the second branch names the 512 identifier)
convert_legacy_baseline_Swapped(baseline) ==
    IF baseline = "stable diffusion 1" THEN "stable_diffusion_1"
    ELSE IF baseline = "stable diffusion 2" THEN "stable_diffusion_2_512"
    ELSE IF baseline = "stable diffusion 2 512" THEN "stable_diffusion_2_512"
    ELSE baseline
\* lines 374-382
convert_legacy_baseline(baseline) ==
    IF baseline = "stable diffusion 1" THEN "stable_diffusion_1"
    ELSE IF baseline = "stable diffusion 2" THEN "stable_diffusion_2_768"
    ELSE IF baseline = "stable diffusion 2 512" THEN "stable_diffusion_2_512"
    ELSE baseline

\* A path below the showcase directory and pathlib.Path(path).name
ShowcasePath(folder, file) == [parent |-> folder, name |-> file]
PathName(path) == path.name

\* glob.glob(<folder>/*): the files of a directory; nothing for a plain file
GlobFolder(entry) ==
    IF entry.is_dir
    THEN [i \in 1..Len(entry.files) |-> ShowcasePath(entry.name, entry.files[i])]
    ELSE <<>>

\* lines 363-372
RECURSIVE get_existing_showcases_from(_, _)
get_existing_showcases_from(existing_showcase_folders, existing) ==
    IF existing_showcase_folders = <<>> THEN existing
    ELSE LET showcase_folder == Head(existing_showcase_folders) IN
         get_existing_showcases_from(Tail(existing_showcase_folders),
            DictSet(existing,
                    model_name_to_showcase_folder_name(showcase_folder.name),
                    GlobFolder(showcase_folder)))
get_existing_showcases(existing_showcase_folders) ==
    get_existing_showcases_from(existing_showcase_folders, <<>>)

\* lines 384-387: mkdir(parents=True, exist_ok=True) raises FileExistsError
\* when the path exists and is not a directory.
create_showcase_folder(d, expected_showcase_foldername) ==
    IF \E i \in 1..Len(d) : d[i].name = expected_showcase_foldername /\ d[i].is_dir
    THEN [raised |-> FALSE, disk |-> d]
    ELSE IF \E i \in 1..Len(d) : d[i].name = expected_showcase_foldername
    THEN [raised |-> TRUE, disk |-> d]
    ELSE [raised |-> FALSE, disk |-> Append(d, DiskDir(expected_showcase_foldername, <<>>))]

\* lines 252-263: the showcase list rebuilt from a folder listing
RebuildShowcases(expected_showcase_foldername, listing) ==
    [i \in 1..Len(listing) |->
        urljoin(MODEL_REFERENCE_GITHUB_REPO,
                default_showcase_folder_name \o <<"/">> \o expected_showcase_foldername
                    \o <<"/">> \o quote(PathName(listing[i])))]

\* line 241: whether the declared showcases are reconciled at all
DeclaresShowcases(record) == ~IsNone(record.showcases) /\ Len(Val(record.showcases)) > 0

\* lines 241-263: [raised, log, showcases]; line 253 raises KeyError when the
\* expected folder is not a key of the pre-pass listing.
ShowcaseStep(log, model_record_key, record, expected_showcase_foldername, existing) ==
    IF ~DeclaresShowcases(record)
    THEN [raised |-> FALSE, log |-> log, showcases |-> record.showcases]
    ELSE LET declared == Val(record.showcases)
             l1 == LogIf(\E i \in 1..Len(declared) : Contains("huggingface", declared[i]),
                         log, model_record_key, "has a huggingface showcase.")
             l2 == LogIf(~DictHas(existing, expected_showcase_foldername),
                         l1, model_record_key, "has no showcase folder.")
         IN  IF ~DictHas(existing, expected_showcase_foldername)
             THEN [raised |-> TRUE, log |-> l2, showcases |-> Some(<<>>)]
             ELSE [raised |-> FALSE, log |-> l2,
                   showcases |-> Some(RebuildShowcases(expected_showcase_foldername,
                                        DictGet(existing, expected_showcase_foldername)))]

\* lines 267-269
RECURSIVE CountTags(_, _)
CountTags(tags, counts) ==
    IF tags = <<>> THEN counts ELSE CountTags(Tail(tags), DictIncr(counts, Head(tags)))

\* lines 410-428: the "files" entry; only prints.  (The items of an entry are
\* built by the constructor of their class at lines 102 and 110, so the
\* isinstance checks of lines 411-413 and 432-434 never fail.)
StandardYamlNames == { <<"v2-inference-v", ".yaml">>, <<"v1-inference", ".yaml">> }
PrintIf(cond, printed, message) == IF cond THEN Append(printed, message) ELSE printed
RECURSIVE ConvertFiles(_, _)
ConvertFiles(files, printed) ==
    IF files = <<>> THEN printed
    ELSE LET config_file == Head(files)
             p1 == PrintIf(config_file.path = <<>>, printed, "has a config file with no path.")
         IN  IF Contains(".yaml", config_file.path)
             THEN ConvertFiles(Tail(files),
                    PrintIf(config_file.path \notin StandardYamlNames, p1,
                            "has a non-standard config."))
             ELSE LET p2 == PrintIf(~Contains(".ckpt", config_file.path), p1,
                                    "does not have a ckpt file specified.")
                      p3 == IF IsNone(config_file.sha256sum) \/ config_file.sha256sum = Some(<<>>)
                            THEN Append(p2, "has a config file with no sha256sum.")
                            ELSE PrintIf(Len(Val(config_file.sha256sum)) # 64, p2,
                                         "has a config file with an invalid sha256sum.")
                  IN  ConvertFiles(Tail(files), p3)

\* lines 431-452: [raised, downloads, download_hosts, printed]
RECURSIVE ConvertDownloads(_, _)
ConvertDownloads(downloads, acc) ==
    IF downloads = <<>> \/ acc.raised THEN acc
    ELSE LET download == Head(downloads)
             p1 == PrintIf(download.file_name = <<>>, acc.printed,
                           "has a download with no file_name.")
             p2 == PrintIf(download.file_path # <<>>, p1, "has a download with a file_path.")
         IN  IF IsNone(download.file_url) \/ download.file_url = Some(<<>>)
             THEN ConvertDownloads(Tail(downloads),
                    [acc EXCEPT !.downloads = Append(@, download),
                                !.printed = Append(p2, "has a download with no file_url.")])
             ELSE LET url == Val(download.file_url)
                      marked == IF Contains("civitai", url)
                                THEN [download EXCEPT !.known_slow_download = Some(TRUE)]
                                ELSE download
                  IN  IF urlparse_raises(url)
                      THEN [acc EXCEPT !.raised = TRUE,
                                       !.downloads = Append(@, marked) \o Tail(downloads),
                                       !.printed = Append(p2, "has a download with an invalid file_url.")]
                      ELSE ConvertDownloads(Tail(downloads),
                             [acc EXCEPT !.downloads = Append(@, marked),
                                         !.download_hosts = DictIncr(@, netloc(url)),
                                         !.printed = p2])

\* lines 408-454: the entries of the typed config block, by their key
RECURSIVE ConvertEntries(_, _)
ConvertEntries(entries, acc) ==
    IF entries = <<>> THEN acc
    ELSE IF acc.raised THEN [acc EXCEPT !.config = @ \o entries]
    ELSE LET config_entry_key == Head(entries)[1]
             config_entry_object == Head(entries)[2]
         IN  IF config_entry_key = "files"
             THEN ConvertEntries(Tail(entries),
                    [acc EXCEPT !.config = Append(@, Head(entries)),
                                !.printed = ConvertFiles(config_entry_object, @)])
             ELSE IF config_entry_key = "download"
             THEN LET sub == ConvertDownloads(config_entry_object,
                                [raised |-> FALSE, downloads |-> <<>>,
                                 download_hosts |-> acc.download_hosts,
                                 printed |-> acc.printed])
                  IN  ConvertEntries(Tail(entries),
                        [raised |-> sub.raised,
                         config |-> Append(acc.config, <<config_entry_key, sub.downloads>>),
                         download_hosts |-> sub.download_hosts,
                         printed |-> sub.printed])
             ELSE ConvertEntries(Tail(entries), [acc EXCEPT !.config = Append(@, Head(entries))])
\* lines 389-454: [raised, config, download_hosts, printed]
normalize_and_convert_config_entries(config_entries) ==
    ConvertEntries(config_entries,
        [raised |-> FALSE, config |-> <<>>, download_hosts |-> <<>>, printed |-> <<>>])

\* lines 287-288
RECURSIVE CountHosts(_, _)
CountHosts(found_hosts, counts) ==
    IF found_hosts = <<>> THEN counts
    ELSE CountHosts(Tail(found_hosts), DictIncr(counts, Head(found_hosts)[1]))


\* lines 292-300: empty showcase directories
RECURSIVE LogEmptyFolders(_, _)
LogEmptyFolders(folders, log) ==
    IF folders = <<>> THEN log
    ELSE LET parsed_folder == Head(folders) IN
         LogEmptyFolders(Tail(folders),
            LogIf(parsed_folder.is_dir /\ parsed_folder.files = <<>>,
                  log, parsed_folder.name, "showcase folder is empty."))

\* lines 302-307
final_on_disk_showcase_folders_names(folders) ==
    LET dirs == SelectSeq(folders, LAMBDA f : f.is_dir) IN [i \in 1..Len(dirs) |-> dirs[i].name]
final_expected_showcase_folders(records) ==
    [i \in 1..Len(records) |-> model_name_to_showcase_folder_name(records[i][1])]

\* lines 309-312: directories no record accounts for
RECURSIVE LogOrphans(_, _, _)
LogOrphans(names, expected, log) ==
    IF names = <<>> THEN log
    ELSE LogOrphans(Tail(names), expected,
            LogIf(~Contains(Head(names), expected), log, Head(names),
                  "is not in the model records."))

\* lines 340-345: .json(exclude_none=True, ...): a field holding None is
\* left out; every other field is written as <<name, value>>.
Field(name, optional) == IF IsNone(optional) THEN <<>> ELSE << <<name, Val(optional)>> >>
SerializeDownload(d) ==
    << <<"file_name", d.file_name>>, <<"file_path", d.file_path>> >>
    \o Field("file_url", d.file_url) \o Field("sha256sum", d.sha256sum)
    \o Field("known_slow_download", d.known_slow_download)
SerializeConfig(config) ==
    [i \in 1..Len(config) |->
        <<config[i][1], [j \in 1..Len(config[i][2]) |-> SerializeDownload(config[i][2][j])]>>]
SerializeRecord(r) ==
    << <<"name", r.name>>, <<"type", r.type>>, <<"baseline", r.baseline>>,
       <<"style", r.style>> >>
    \o Field("description", r.description)
    \o << <<"available", r.available>>, <<"download_all", r.download_all>> >>
    \o Field("showcases", r.showcases) \o Field("tags", r.tags)
    \o << <<"config", SerializeConfig(Val(r.config))>>, <<"strict_ok", r.strict_ok>> >>
\* lines 329-345
Serialize(baseline_types, styles, tags, model_hosts, models) ==
    << <<"baseline_types", baseline_types>>, <<"styles", styles>>, <<"tags", tags>>,
       <<"model_hosts", model_hosts>>,
       <<"models", [i \in 1..Len(models) |-> <<models[i][1], SerializeRecord(models[i][2])>>]>> >>

\* line 350: StableDiffusionModelReference(**json.loads(jsonToWrite)) raises
\* ValidationError unless every record satisfies the strict target schema.
StrictSchemaRaises(json) ==
    LET models == json[5][2] IN
    \E i \in 1..Len(models) :
        \E j \in 1..Len(models[i][2]) : models[i][2][j] = <<"strict_ok", FALSE>>

\* (variant: the validation error is printed and not raised again)
AfterFinalValidation_Swallowed(raised) == "validated"
\* lines 347-356: where normalize_and_convert goes after the validation
AfterFinalValidation(raised) == IF raised THEN "aborted" ELSE "validated"

\* lines 191-198: the four aggregate tables are locals of each call
InitialTable(previous) == <<>>

\* what a run started from, and the summary kept of a finished run
Snapshot == [legacy |-> legacy, disk |-> disk, outfile |-> outfile,
             records |-> all_model_records, log |-> all_validation_errors_log]
OldOutput == Serialize(<<>>, <<>>, <<>>, <<>>, <<>>)


\* ---------------------------------------------------------------- initial
Inputs ==
    ((ConfigFiles \cup BaselineFiles \cup NoConfigFiles \cup ChecksumFiles)
        \X { <<>> } \X {FALSE})
    \cup (SanityFiles \X { <<>> } \X BOOLEAN)
    \cup (ShowcaseFiles \X DiskStates \X {FALSE})

InitWith(input, out) ==
    /\ legacy = input[1]
    /\ disk = input[2]
    /\ debug_mode = input[3]
    /\ outfile = out
    /\ all_model_records = <<>>
    /\ all_validation_errors_log = <<>>
    /\ pc = "idle"
    /\ error = ""
    /\ idx = 1
    /\ all_baseline_types = <<>>
    /\ all_styles = <<>>
    /\ all_tags = <<>>
    /\ all_model_hosts = <<>>
    /\ existing_showcase_files = <<>>
    /\ jsonToWrite = None
    /\ run = 1
    /\ writes = 0
    /\ start = [legacy |-> input[1], disk |-> input[2], outfile |-> out,
                records |-> <<>>, log |-> <<>>]
    /\ phases = <<>>
    /\ config_prints = <<>>
    /\ history = <<>>

Init == \E input \in Inputs, out \in {None, Some(OldOutput)} : InitWith(input, out)

\* ---------------------------------------------------------------- actions
\* normalize_and_convert, lines 191-203
StartRun ==
    /\ pc = "idle"
    /\ all_baseline_types' = InitialTable(all_baseline_types)
    /\ all_styles' = InitialTable(all_styles)
    /\ all_tags' = InitialTable(all_tags)
    /\ all_model_hosts' = InitialTable(all_model_hosts)
    /\ existing_showcase_files' = get_existing_showcases(disk)
    /\ idx' = 1
    /\ pc' = "streaming"
    /\ error' = ""
    /\ jsonToWrite' = None
    /\ writes' = 0
    /\ start' = Snapshot
    /\ phases' = <<"prepass">>
    /\ config_prints' = <<>>
    /\ UNCHANGED <<legacy, disk, outfile, debug_mode, all_model_records,
                   all_validation_errors_log, run, history>>

\* _iterate_over_input_records, lines 91-124: the generator advances to its
\* next yield, skips a record that raised ValidationError, or lets any other
\* exception end normalize_and_convert.
IterateNext ==
    /\ pc = "streaming"
    /\ idx <= Len(legacy)
    /\ LET model_record_key == legacy[idx].key
           parsed == ParseRecord(legacy[idx].rec)
           log1 == LogIf(parsed.too_many, all_validation_errors_log, model_record_key,
                         "has more than 2 config entries.")
           failed == OnValidationError(log1, model_record_key)
       IN  IF parsed.status = "ok"
           THEN /\ all_model_records' = DictSet(all_model_records, model_record_key, Val(parsed.record))
                /\ all_validation_errors_log' = log1
                /\ pc' = "yielded"
                /\ UNCHANGED <<idx, error>>
           ELSE IF parsed.status = "ValidationError"
           THEN /\ all_validation_errors_log' = failed.log
                /\ pc' = failed.pc
                /\ error' = failed.error
                /\ idx' = IF failed.pc = "streaming" THEN idx + 1 ELSE idx
                /\ UNCHANGED all_model_records
           ELSE /\ all_validation_errors_log' = log1
                /\ pc' = "aborted"
                /\ error' = parsed.status
                /\ UNCHANGED <<idx, all_model_records>>
    /\ UNCHANGED <<legacy, disk, outfile, debug_mode, all_baseline_types, all_styles,
                   all_tags, all_model_hosts, existing_showcase_files, jsonToWrite,
                   run, writes, start, phases, history, config_prints>>

\* normalize_and_convert, lines 205-288: the loop body for the yielded record.
\* An exception leaves the effects of the statements before it in place.
ProcessRecord ==
    /\ pc = "yielded"
    /\ LET model_record_key == legacy[idx].key
           rec0 == DictGet(all_model_records, model_record_key)
           log1 == generic_record_sanity_checks(all_validation_errors_log, model_record_key,
                                                rec0, debug_mode)
           log2 == LogIf(rec0.type # "ckpt", log1, model_record_key, "is not a ckpt!")
           rec1 == [rec0 EXCEPT !.baseline = convert_legacy_baseline(@)]
           expected == model_name_to_showcase_folder_name(model_record_key)
           made == create_showcase_folder(disk, expected)
           sc == ShowcaseStep(log2, model_record_key, rec1, expected, existing_showcase_files)
           rec2 == [rec1 EXCEPT !.showcases = sc.showcases]
           log3 == LogIf(Len(Val(rec2.config)) = 0, sc.log, model_record_key, "has no config.")
           conv == normalize_and_convert_config_entries(Val(rec2.config))
           rec3 == [rec2 EXCEPT !.config = Some(conv.config)]
       IN  /\ all_styles' = DictIncr(all_styles, rec0.style)
           /\ all_baseline_types' = DictIncr(all_baseline_types, rec1.baseline)
           /\ disk' = made.disk
           /\ IF made.raised
              THEN /\ pc' = "aborted"
                   /\ error' = "FileExistsError"
                   /\ all_validation_errors_log' = log2
                   /\ all_model_records' = DictSet(all_model_records, model_record_key, rec1)
                   /\ UNCHANGED <<idx, all_tags, all_model_hosts, config_prints>>
              ELSE IF sc.raised
              THEN /\ pc' = "aborted"
                   /\ error' = "KeyError"
                   /\ all_validation_errors_log' = sc.log
                   /\ all_model_records' = DictSet(all_model_records, model_record_key, rec2)
                   /\ UNCHANGED <<idx, all_tags, all_model_hosts, config_prints>>
              ELSE /\ all_tags' = IF IsNone(rec2.tags) THEN all_tags
                                  ELSE CountTags(Val(rec2.tags), all_tags)
                   /\ all_validation_errors_log' = log3
                   /\ all_model_records' = DictSet(all_model_records, model_record_key, rec3)
                   /\ config_prints' = IF conv.printed = <<>> THEN config_prints
                                       ELSE DictSet(config_prints, model_record_key, conv.printed)
                   /\ IF conv.raised
                      THEN /\ pc' = "aborted"
                           /\ error' = "ValueError"
                           /\ UNCHANGED <<idx, all_model_hosts>>
                      ELSE /\ all_model_hosts' = CountHosts(conv.download_hosts, all_model_hosts)
                           /\ pc' = "streaming"
                           /\ idx' = idx + 1
                           /\ UNCHANGED error
    /\ UNCHANGED <<legacy, outfile, debug_mode, existing_showcase_files, jsonToWrite,
                   run, writes, start, phases, history>>

\* normalize_and_convert, lines 290-312, once the generator is exhausted
PostReconciliation ==
    /\ pc = "streaming"
    /\ idx > Len(legacy)
    /\ all_validation_errors_log' =
          LogOrphans(final_on_disk_showcase_folders_names(disk),
                     final_expected_showcase_folders(all_model_records),
                     LogEmptyFolders(disk, all_validation_errors_log))
    /\ pc' = "final"
    /\ phases' = phases \o <<"streamed", "post">>
    /\ UNCHANGED <<legacy, disk, outfile, debug_mode, all_model_records, error, idx,
                   all_baseline_types, all_styles, all_tags, all_model_hosts,
                   existing_showcase_files, jsonToWrite, run, writes, start, history, config_prints>>

\* normalize_and_convert, lines 329-354
FinalValidation ==
    /\ pc = "final"
    /\ LET json == Serialize(all_baseline_types, all_styles, all_tags, all_model_hosts,
                             all_model_records)
       IN  /\ jsonToWrite' = Some(json)
           /\ pc' = AfterFinalValidation(StrictSchemaRaises(json))
           /\ error' = IF StrictSchemaRaises(json) THEN "ValidationError" ELSE ""
           /\ phases' = IF StrictSchemaRaises(json) THEN phases ELSE Append(phases, "validated")
    /\ UNCHANGED <<legacy, disk, outfile, debug_mode, all_model_records,
                   all_validation_errors_log, idx, all_baseline_types, all_styles,
                   all_tags, all_model_hosts, existing_showcase_files, run, writes,
                   start, history, config_prints>>

\* normalize_and_convert, lines 356-361
Commit ==
    /\ pc = "validated"
    /\ outfile' = jsonToWrite
    /\ writes' = writes + 1
    /\ pc' = "committed"
    /\ phases' = Append(phases, "written")
    /\ UNCHANGED <<legacy, disk, debug_mode, all_model_records, all_validation_errors_log,
                   error, idx, all_baseline_types, all_styles, all_tags, all_model_hosts,
                   existing_showcase_files, jsonToWrite, run, start, history, config_prints>>

Next == StartRun \/ IterateNext \/ ProcessRecord \/ PostReconciliation
        \/ FinalValidation \/ Commit

Spec == Init /\ [][Next]_vars


\* ------------------------------------------------- several runs, one process
\* A further run in the same process, on the same or on another converter
\* instance: all_model_records and all_validation_errors_log are class
\* attributes (lines 32-35), so whatever they hold stays.  Between the runs
\* the legacy file may have been replaced and the showcase directory may
\* have been put back to what the finished run started from.
RunFiles ==
    { <<Entry(KeyOrder[1], DefaultRec(KeyOrder[1]))>>,
      <<Entry(KeyOrder[2], [DefaultRec(KeyOrder[2]) EXCEPT !.tags = Some(<<"anime">>)])>>,
      <<Entry(KeyOrder[1], DefaultRec(KeyOrder[1])),
        Entry(KeyOrder[2], [DefaultRec(KeyOrder[2]) EXCEPT !.showcases = Some(<<PlainShowcaseUrl>>)])>>,
      <<Entry(KeyOrder[1], [DefaultRec(KeyOrder[1]) EXCEPT !.schema_ok = FALSE]),
        Entry(KeyOrder[3], [DefaultRec(KeyOrder[3]) EXCEPT !.style = ""])>>,
      <<Entry(KeyOrder[1], [DefaultRec(KeyOrder[1]) EXCEPT !.config = Some(FilesFirst(<<F_ckpt>>, <<D_badurl>>))])>>,
      <<Entry(KeyOrder[3], [DefaultRec(KeyOrder[3]) EXCEPT !.strict_ok = FALSE])>> }

RunSummary == [legacy |-> start.legacy, disk |-> start.disk, pc |-> pc,
               jsonToWrite |-> jsonToWrite]

NextRun ==
    /\ pc \in {"committed", "aborted"}
    /\ run < MaxRuns
    /\ run' = run + 1
    /\ history' = Append(history, RunSummary)
    /\ legacy' \in {legacy} \cup RunFiles
    /\ disk' \in {disk, start.disk}
    /\ pc' = "idle"
    /\ UNCHANGED <<outfile, debug_mode, all_model_records, all_validation_errors_log,
                   error, idx, all_baseline_types, all_styles, all_tags, all_model_hosts,
                   existing_showcase_files, jsonToWrite, writes, start, phases, config_prints>>

InitRuns ==
    \E f \in RunFiles, d \in DiskStates, out \in {None, Some(OldOutput)} :
        InitWith(<<f, d, FALSE>>, out)

NextRuns == StartRun \/ IterateNext \/ ProcessRecord \/ PostReconciliation
            \/ FinalValidation \/ Commit \/ NextRun

SpecRuns == InitRuns /\ [][NextRuns]_vars


\* ----------------------------------------------------------------- claims
RecordKey(i) == legacy[i].key
RawRecord(i) == legacy[i].rec
\* the traversal has gone past record i
Passed(i) == pc # "idle" /\ i < idx
\* normalize_and_convert ended with an exception while handling record i
AbortedAt(i) == pc = "aborted" /\ idx = i
\* the traversal has dealt with record i, one way or the other
Handled(i) == Passed(i) \/ AbortedAt(i)
Count(seq, x) == Cardinality({j \in 1..Len(seq) : seq[j] = x})
FindingsIn(log, key) == IF DictHas(log, key) THEN DictGet(log, key) ELSE <<>>
FindingsOf(key) == FindingsIn(all_validation_errors_log, key)
ConfigEntry(config, name) == config[CHOOSE e \in 1..Len(config) : config[e][1] = name][2]
HasEntry(config, name) == \E e \in 1..Len(config) : config[e][1] = name

\* The case C1 speaks of: a config block with a "files" and a "download"
\* entry, every download naming the path of a non-YAML file descriptor
\* (and, read charitably, nothing in the record violating the legacy schema).
WellFormedConfig(rec) ==
    /\ rec.has_config /\ ~IsNone(rec.config) /\ rec.schema_ok
    /\ HasEntry(Val(rec.config), "files") /\ HasEntry(Val(rec.config), "download")
    /\ LET files == ConfigEntry(Val(rec.config), "files")
           downloads == ConfigEntry(Val(rec.config), "download")
       IN  /\ \A f \in 1..Len(files) : files[f].schema_ok
           /\ \A d \in 1..Len(downloads) :
                /\ downloads[d].schema_ok
                /\ \E f \in 1..Len(files) :
                      files[f].path = downloads[d].file_name /\ ~Contains(".yaml", files[f].path)
ShaOfFile(rec, file_name) ==
    LET files == ConfigEntry(Val(rec.config), "files")
    IN  files[CHOOSE f \in 1..Len(files) : files[f].path = file_name].sha256sum

\* C1: every legacy record whose config block has a "files" and a "download"
\* entry, in whichever order, and whose downloads all name the path of a
\* non-YAML file descriptor, appears in the output; each of its downloads
\* carries the checksum of the file descriptor of that path, and its config
\* block holds only the "download" entry.
C1_ChecksumsTransferred ==
    \A i \in 1..Len(legacy) :
        (Handled(i) /\ WellFormedConfig(RawRecord(i))) =>
            /\ DictHas(all_model_records, RecordKey(i))
            /\ LET config == Val(DictGet(all_model_records, RecordKey(i)).config)
                   raw == ConfigEntry(Val(RawRecord(i).config), "download")
               IN  /\ DictKeys(config) = <<"download">>
                   /\ Len(config[1][2]) = Len(raw)
                   /\ \A d \in 1..Len(raw) :
                        /\ config[1][2][d].file_name = raw[d].file_name
                        /\ config[1][2][d].sha256sum = ShaOfFile(RawRecord(i), raw[d].file_name)

\* The case C2 speaks of: a download names a file the lookup table lacks.
LookupFails(rec) == rec.has_config /\ ~IsNone(rec.config) /\ ParseRecord(rec).status = "KeyError"

\* C2: a download naming a file_name that is no key of the record's checksum
\* lookup table is fatal for that record only: the record is absent from the
\* output, a finding is logged under its key, and the run goes on with the
\* next record instead of ending.
C2_LookupFailureIsPerRecord ==
    \A i \in 1..Len(legacy) :
        (Handled(i) /\ LookupFails(RawRecord(i))) =>
            /\ ~DictHas(all_model_records, RecordKey(i))
            /\ FindingsOf(RecordKey(i)) # <<>>
            /\ ~AbortedAt(i)


\* The case C3 speaks of: building a file descriptor, a download descriptor
\* or the typed record raises a schema violation.
RaisesSchemaViolation(rec) == ParseRecord(rec).status = "ValidationError"

C3_Excluded ==
    \A i \in 1..Len(legacy) :
        (Passed(i) /\ RaisesSchemaViolation(RawRecord(i))) =>
            /\ ~DictHas(all_model_records, RecordKey(i))
            /\ Count(FindingsOf(RecordKey(i)), "CRITICAL: Error parsing") = 1
            /\ pc = "committed" =>
                  \A m \in 1..Len(Val(outfile)[5][2]) : Val(outfile)[5][2][m][1] # RecordKey(i)

C3_Step ==
    (pc = "streaming" /\ idx <= Len(legacy) /\ RaisesSchemaViolation(RawRecord(idx))) =>
        /\ UNCHANGED <<all_model_records, all_baseline_types, all_styles, all_tags,
                       all_model_hosts, disk, outfile>>
        /\ Count(FindingsIn(all_validation_errors_log', RecordKey(idx)), "CRITICAL: Error parsing") = 1
        /\ pc' = "streaming"
        /\ error' = ""
        /\ idx' = idx + 1

\* C3: when building a file descriptor, a download descriptor or the typed
\* record raises a schema violation, the record stays out of the output
\* record mapping, adds nothing to the four aggregate tables, gets no
\* showcase folder, has a CRITICAL finding logged under its key, and the
\* traversal goes on with the record after it.
C3_SchemaViolationIsPerRecord == []C3_Excluded /\ [][C3_Step]_vars

\* a record that raised a schema violation, and a later one that was converted
C3_Witness ==
    \E i, j \in 1..Len(legacy) :
        /\ i < j /\ Passed(j)
        /\ RaisesSchemaViolation(RawRecord(i))
        /\ DictHas(all_model_records, RecordKey(j))
        /\ pc = "committed"

\* The pre-pass listing of the folder a record is expected to have
ListedFiles(i) ==
    LET expected == model_name_to_showcase_folder_name(RecordKey(i))
    IN  IF DictHas(existing_showcase_files, expected)
        THEN DictGet(existing_showcase_files, expected) ELSE <<>>
ShowcaseUrl(i, path) ==
    MODEL_REFERENCE_GITHUB_REPO \o <<"showcase", "/">>
        \o model_name_to_showcase_folder_name(RecordKey(i)) \o <<"/">> \o quote(path.name)
ShowcaseList(record) == IF IsNone(record.showcases) THEN <<>> ELSE Val(record.showcases)

\* C4: after the per-record reconciliation, the showcase URL list of every
\* record in the output holds exactly one URL per file the pre-pass listed
\* in the record's showcase folder (base path, "showcase/", folder name, "/",
\* percent-encoded file name), whatever the legacy record declared,
\* including nothing.
C4_ShowcasesFollowDisk ==
    \A i \in 1..Len(legacy) :
        (Passed(i) /\ DictHas(all_model_records, RecordKey(i))) =>
            ShowcaseList(DictGet(all_model_records, RecordKey(i)))
                = [f \in 1..Len(ListedFiles(i)) |-> ShowcaseUrl(i, ListedFiles(i)[f])]

\* C5: the output file is written at most once per run, and only after every
\* record was streamed, the post-pass ran and the serialized result passed
\* the strict schema; a run that ends with an exception writes nothing and
\* leaves an existing output file as it was.
C5_WriteOnlyAtCommit ==
    /\ writes <= 1
    /\ writes = 1 =>
          /\ pc = "committed"
          /\ idx > Len(legacy)
          /\ phases = <<"prepass", "streamed", "post", "validated", "written">>
          /\ ~IsNone(jsonToWrite) /\ ~StrictSchemaRaises(Val(jsonToWrite))
          /\ outfile = jsonToWrite
    /\ writes = 0 => outfile = start.outfile
    /\ pc = "aborted" => (writes = 0 /\ outfile = start.outfile)

\* a run over a file that existed before ends at the final validation
C5_Witness ==
    /\ pc = "aborted" /\ error = "ValidationError"
    /\ phases = <<"prepass", "streamed", "post">>
    /\ ~IsNone(jsonToWrite)
    /\ outfile = Some(OldOutput)


\* C6: two runs of normalize_and_convert over the same legacy input and the
\* same on-disk showcase state end the same way with the same serialized
\* output, also when both are performed in one process.
C6_RunsRepeat ==
    pc \in {"committed", "aborted"} =>
        \A h \in 1..Len(history) :
            (history[h].legacy = start.legacy /\ history[h].disk = start.disk) =>
                /\ history[h].pc = pc
                /\ pc = "committed" => history[h].jsonToWrite = jsonToWrite

\* the keys of the records of this run's legacy input that were normalized
ConvertedKeys == { RecordKey(i) : i \in { n \in 1..Len(legacy) : ParseRecord(RawRecord(n)).status = "ok" } }
WrittenKeys == { Val(outfile)[5][2][m][1] : m \in 1..Len(Val(outfile)[5][2]) }

\* C7: the output record mapping and the findings log belong to one run: the
\* records a run writes are exactly the records of its own legacy input that
\* were normalized, and its findings log holds only its own findings, whatever
\* another converter instance or an earlier run in the process handled.
C7_StatePerRun ==
    /\ pc # "idle" => start.log = <<>>
    /\ pc = "committed" => WrittenKeys = ConvertedKeys

\* The case C8 speaks of: the record was normalized and the pre-pass did not
\* list its expected showcase folder.
FolderMissing(i) ==
    /\ ParseRecord(RawRecord(i)).status = "ok"
    /\ ~DictHas(existing_showcase_files, model_name_to_showcase_folder_name(RecordKey(i)))

\* C8: for a normalized record whose expected showcase folder the pre-pass
\* did not find, whether or not it declared showcases, the run does not end:
\* a finding about the missing folder is logged under its key, its showcase
\* list is empty, and the folder is created on disk.
C8_MissingFolderHandled ==
    \A i \in 1..Len(legacy) :
        (Handled(i) /\ FolderMissing(i)) =>
            /\ ~AbortedAt(i)
            /\ Count(FindingsOf(RecordKey(i)), "has no showcase folder.") = 1
            /\ ShowcaseList(DictGet(all_model_records, RecordKey(i))) = <<>>
            /\ \E d \in 1..Len(disk) :
                  disk[d].is_dir /\ disk[d].name = model_name_to_showcase_folder_name(RecordKey(i))

\* What may end a run while record i is handled; none of it depends on the
\* fields the generic sanity checks look at.
AbortCause(i) ==
    LET rec == RawRecord(i)
        expected == model_name_to_showcase_folder_name(RecordKey(i))
        downloads == Val(DictGet(all_model_records, RecordKey(i)).config)[1][2]
    IN  \/ ParseRecord(rec).status \in {"KeyError", "TypeError"}
        \/ /\ ParseRecord(rec).status = "ok"
           /\ \/ \E d \in 1..Len(start.disk) : start.disk[d].name = expected /\ ~start.disk[d].is_dir
              \/ DeclaresShowcases(rec) /\ ~DictHas(existing_showcase_files, expected)
              \/ \E d \in 1..Len(downloads) :
                    ~IsNone(downloads[d].file_url) /\ urlparse_raises(Val(downloads[d].file_url))
ExpectedCount(cond) == IF cond THEN 1 ELSE 0

\* C9: a normalized record gets exactly one advisory finding per generic
\* rule it violates (name mismatch, available, download_all in debug mode
\* only, no description, no style), each rule on its own, stays in the output
\* record set, and no rule ends the run.
C9_SanityChecksAreAdvisory ==
    \A i \in 1..Len(legacy) :
        LET key == RecordKey(i)
            rec == RawRecord(i)
        IN  /\ (Handled(i) /\ ParseRecord(rec).status = "ok") =>
                /\ DictHas(all_model_records, key)
                /\ Count(FindingsOf(key), "name mismatch") = ExpectedCount(rec.name # key)
                /\ Count(FindingsOf(key), "is flagged 'available'.") = ExpectedCount(rec.available)
                /\ Count(FindingsOf(key), "has download_all set.")
                      = ExpectedCount(rec.download_all /\ debug_mode)
                /\ Count(FindingsOf(key), "has no description.") = ExpectedCount(IsNone(rec.description))
                /\ Count(FindingsOf(key), "has no style.") = ExpectedCount(rec.style = "")
            /\ AbortedAt(i) => AbortCause(i)

\* a record breaking several rules at once was converted and written
C9_Witness ==
    /\ pc = "committed"
    /\ RawRecord(1).style = "" /\ IsNone(RawRecord(1).description)
    /\ RawRecord(1).name # RecordKey(1) /\ RawRecord(1).available
    /\ RawRecord(1).download_all /\ debug_mode
    /\ Len(FindingsOf(RecordKey(1))) = 5
    /\ RecordKey(1) \in WrittenKeys

\* the translation table of C10
CanonicalBaseline(b) ==
    CASE b = "stable diffusion 1" -> "stable_diffusion_1"
      [] b = "stable diffusion 2" -> "stable_diffusion_2_768"
      [] b = "stable diffusion 2 512" -> "stable_diffusion_2_512"
      [] OTHER -> b

\* C10: convert_legacy_baseline maps the three legacy baseline strings to
\* their canonical identifiers, returns every other string unchanged, and
\* applied to its own result returns that result.
C10_BaselineNormalized ==
    /\ \A b \in Baselines :
          convert_legacy_baseline(convert_legacy_baseline(b)) = convert_legacy_baseline(b)
    /\ \A i \in 1..Len(legacy) :
          (Handled(i) /\ pc # "yielded" /\ DictHas(all_model_records, RecordKey(i))
             /\ ParseRecord(RawRecord(i)).status = "ok") =>
              LET baseline == DictGet(all_model_records, RecordKey(i)).baseline
              IN  /\ baseline = CanonicalBaseline(RawRecord(i).baseline)
                  /\ convert_legacy_baseline(baseline) = baseline

\* the three legacy strings and a foreign one have gone through a run
C10_Witness ==
    /\ pc = "committed" /\ Len(legacy) = 2
    /\ RawRecord(1).baseline = "stable diffusion 2"
    /\ RawRecord(2).baseline = "stable diffusion 3"
    /\ DictGet(all_model_records, RecordKey(1)).baseline = "stable_diffusion_2_768"
    /\ DictGet(all_model_records, RecordKey(2)).baseline = "stable diffusion 3"

\* The case C11 speaks of: the config block is absent, null or empty (and
\* nothing else in the record violates the legacy schema).
ConfigAbsent(rec) == ~rec.has_config
ConfigNull(rec) == rec.has_config /\ IsNone(rec.config)
ConfigEmpty(rec) == rec.has_config /\ ~IsNone(rec.config) /\ Val(rec.config) = <<>>
NoConfig(rec) == rec.schema_ok /\ (ConfigAbsent(rec) \/ ConfigNull(rec) \/ ConfigEmpty(rec))

\* C11: a legacy record whose config block is absent, null or empty gets the
\* finding "has no config." logged under its key, and handling it does not
\* end the run.
C11_NoConfigIsAdvisory ==
    \A i \in 1..Len(legacy) :
        (Handled(i) /\ NoConfig(RawRecord(i))) =>
            /\ Count(FindingsOf(RecordKey(i)), "has no config.") >= 1
            /\ ~AbortedAt(i)

\* The post-pass (lines 290-312) of this run is over.
PostPassDone == Contains("post", phases)
\* directory d of the showcase directory carries the orphan finding
Flagged(d) == Count(FindingsOf(disk[d].name), "is not in the model records.") >= 1
\* the normalized name of directory d is the expected folder name of a
\* record this run processed
MatchesProcessedRecord(d) ==
    \E key \in ConvertedKeys :
        model_name_to_showcase_folder_name(disk[d].name) = model_name_to_showcase_folder_name(key)

\* C12: after the post-pass, a directory of the showcase directory carries
\* the finding "is not in the model records." exactly when its normalized
\* name is the expected folder name of no record processed in this run.
C12_OrphanIffUnmatched ==
    PostPassDone =>
        \A d \in 1..Len(disk) :
            disk[d].is_dir => (Flagged(d) <=> ~MatchesProcessedRecord(d))

\* The case C13 speaks of: a non-YAML file descriptor of the legacy config
\* block carries a checksum that is present and not 64 characters long.
HasBadChecksum(rec) ==
    /\ rec.has_config /\ ~IsNone(rec.config) /\ HasEntry(Val(rec.config), "files")
    /\ LET files == ConfigEntry(Val(rec.config), "files")
       IN  \E f \in 1..Len(files) :
              /\ files[f].schema_ok /\ ~Contains(".yaml", files[f].path)
              /\ ~IsNone(files[f].sha256sum) /\ files[f].sha256sum # Some(<<>>)
              /\ Len(Val(files[f].sha256sum)) # 64
\* normalize_and_convert_config_entries was called for record i
ReachedConfigChecks(i) ==
    /\ ParseRecord(RawRecord(i)).status = "ok"
    /\ Passed(i) \/ (AbortedAt(i) /\ error = "ValueError")
PrintsOf(key) == FindingsIn(config_prints, key)
InvalidShaMessage == "has a config file with an invalid sha256sum."

\* C13: a record that reaches the config sanity checks with a checksum that
\* is present and not 64 characters long is flagged for it under its key (in
\* the findings log or, at the least, in what the checks print), and stays in
\* the output record set.
C13_BadChecksumFlagged ==
    \A i \in 1..Len(legacy) :
        (ReachedConfigChecks(i) /\ HasBadChecksum(RawRecord(i))) =>
            /\ \/ Count(FindingsOf(RecordKey(i)), InvalidShaMessage) >= 1
               \/ Count(PrintsOf(RecordKey(i)), InvalidShaMessage) >= 1
            /\ DictHas(all_model_records, RecordKey(i))

=============================================================================
